---- MODULE Spec2Model ----
(***************************************************************************)
(* A model of server.py: a static file server built on the standard       *)
(* library's socketserver.TCPServer and http.server.                       *)
(* SimpleHTTPRequestHandler, with an end_headers override that adds the    *)
(* two cross-origin isolation headers.                                     *)
(*                                                                         *)
(* server.py itself is 38 lines; what it does on a request is what the     *)
(* classes it instantiates do.  The inherited behaviour is therefore       *)
(* modelled from CPython 3.11's socketserver.py, http/server.py and        *)
(* posixpath.py, and each definition names the library function it         *)
(* follows next to the line of server.py that brings it in.                *)
(*                                                                         *)
(* Strings that the code inspects character by character (the request      *)
(* path, the port argument) are sequences of tokens: a token is one        *)
(* character ("/", ".", "?", a digit), one percent-escape ("%2e", "%2f")   *)
(* or one run of ordinary name characters ("etc", "test.txt").             *)
(***************************************************************************)
EXTENDS Integers, Sequences, FiniteSets, TLC

----------------------------------------------------------------------------
(* Bounds of the model.                                                    *)

\* Number of client connections that may ever be opened.
MaxConns == 2

\* Capacity, in body chunks, of the kernel's send buffer of one connection:
\* a write of a file chunk blocks while this many chunks are unread.
SockBuf == 1

----------------------------------------------------------------------------
(* Sequences helpers.                                                      *)

Last(s) == s[Len(s)]

Front(s) == SubSeq(s, 1, Len(s) - 1)

IsPrefix(p, s) == Len(p) <= Len(s) /\ SubSeq(s, 1, Len(p)) = p

\* Index of the first occurrence of token t in s, or 0.
RECURSIVE IndexFrom(_, _, _)
IndexFrom(s, t, i) ==
    IF i > Len(s) THEN 0
    ELSE IF s[i] = t THEN i
    ELSE IndexFrom(s, t, i + 1)

\* str.split(sep, 1)[0]: the part before the first sep.
BeforeFirst(s, t) ==
    LET i == IndexFrom(s, t, 1)
    IN  IF i = 0 THEN s ELSE SubSeq(s, 1, i - 1)

\* str.split("/"): the components between slashes, empty ones included.
RECURSIVE SplitSlash(_)
SplitSlash(s) ==
    LET i == IndexFrom(s, "/", 1)
    IN  IF i = 0 THEN <<s>>
        ELSE <<SubSeq(s, 1, i - 1)>> \o SplitSlash(SubSeq(s, i + 1, Len(s)))

\* "/".join(comps)
RECURSIVE JoinSlash(_)
JoinSlash(comps) ==
    IF comps = <<>> THEN <<>>
    ELSE IF Len(comps) = 1 THEN comps[1]
    ELSE comps[1] \o <<"/">> \o JoinSlash(Tail(comps))

\* filter(None, words)
RECURSIVE NonEmpty(_)
NonEmpty(words) ==
    IF words = <<>> THEN <<>>
    ELSE IF words[1] = <<>> THEN NonEmpty(Tail(words))
    ELSE <<words[1]>> \o NonEmpty(Tail(words))

----------------------------------------------------------------------------
(* The file system the process runs on.  A file name is the sequence of    *)
(* its components below "/", each component a token sequence.              *)

curdir == <<".">>

pardir == <<".", ".">>

\* A one-token component.
N(name) == <<name>>

\* Path(__file__).parent: the directory that holds server.py.
ScriptDir == <<N("srv")>>

\* The working directory the process happens to be started from.
Cwd == <<N("home")>>

\* kind "file": size chunks of content; open fails with OSError when openErr;
\* reading chunk readErrAt fails with OSError (0: never).
InitFS ==
    { [path |-> <<>>, kind |-> "dir", size |-> 0, openErr |-> FALSE, readErrAt |-> 0],
      [path |-> ScriptDir, kind |-> "dir", size |-> 0, openErr |-> FALSE, readErrAt |-> 0],
      [path |-> ScriptDir \o <<N("test.txt")>>, kind |-> "file", size |-> 2,
       openErr |-> FALSE, readErrAt |-> 0],
      [path |-> ScriptDir \o <<N("noperm.txt")>>, kind |-> "file", size |-> 1,
       openErr |-> TRUE, readErrAt |-> 0],
      [path |-> ScriptDir \o <<N("bad.bin")>>, kind |-> "file", size |-> 2,
       openErr |-> FALSE, readErrAt |-> 2],
      [path |-> ScriptDir \o <<N("sub")>>, kind |-> "dir", size |-> 0,
       openErr |-> FALSE, readErrAt |-> 0],
      [path |-> ScriptDir \o <<N("app")>>, kind |-> "dir", size |-> 0,
       openErr |-> FALSE, readErrAt |-> 0],
      [path |-> ScriptDir \o <<N("app"), N("index.html")>>, kind |-> "file", size |-> 1,
       openErr |-> FALSE, readErrAt |-> 0],
      [path |-> Cwd, kind |-> "dir", size |-> 0, openErr |-> FALSE, readErrAt |-> 0],
      [path |-> <<N("etc")>>, kind |-> "dir", size |-> 0, openErr |-> FALSE, readErrAt |-> 0],
      [path |-> <<N("etc"), N("passwd")>>, kind |-> "file", size |-> 2,
       openErr |-> FALSE, readErrAt |-> 0] }

\* The kernel's name lookup: "." is skipped, ".." steps up (and stays at "/").
RECURSIVE OsResolve(_, _)
OsResolve(base, comps) ==
    IF comps = <<>> THEN base
    ELSE IF comps[1] = curdir \/ comps[1] = <<>> THEN OsResolve(base, Tail(comps))
    ELSE IF comps[1] = pardir
         THEN OsResolve(IF base = <<>> THEN <<>> ELSE Front(base), Tail(comps))
    ELSE OsResolve(Append(base, comps[1]), Tail(comps))

Exists(fsys, p) == \E n \in fsys : n.path = p

Node(fsys, p) == CHOOSE n \in fsys : n.path = p

\* os.path.isdir / os.path.isfile of a name that may end in "/".
IsDir(fsys, p) == Exists(fsys, p) /\ Node(fsys, p).kind = "dir"

IsFile(fsys, p) == Exists(fsys, p) /\ Node(fsys, p).kind = "file"

----------------------------------------------------------------------------
(* Path translation: SimpleHTTPRequestHandler.translate_path, with         *)
(* urllib.parse.unquote and posixpath.normpath.                            *)

\* urllib.parse.unquote on the escapes the model's paths use.
RECURSIVE unquote(_)
unquote(s) ==
    IF s = <<>> THEN <<>>
    ELSE <<(CASE s[1] = "%2e" -> "."
              [] s[1] = "%2f" -> "/"
              [] OTHER -> s[1])>> \o unquote(Tail(s))

\* The loop of posixpath.normpath over the components.
RECURSIVE NormComps(_, _, _)
NormComps(comps, initial_slashes, new_comps) ==
    IF comps = <<>> THEN new_comps
    ELSE LET comp == comps[1]
         IN  IF comp = <<>> \/ comp = curdir
             THEN NormComps(Tail(comps), initial_slashes, new_comps)
             ELSE IF comp # pardir
                     \/ (initial_slashes = 0 /\ new_comps = <<>>)
                     \/ (new_comps # <<>> /\ Last(new_comps) = pardir)
             THEN NormComps(Tail(comps), initial_slashes, Append(new_comps, comp))
             ELSE IF new_comps # <<>>
             THEN NormComps(Tail(comps), initial_slashes, Front(new_comps))
             ELSE NormComps(Tail(comps), initial_slashes, new_comps)

normpath(path) ==
    IF path = <<>> THEN curdir
    ELSE LET initial_slashes ==
                 IF path[1] # "/" THEN 0
                 ELSE IF Len(path) >= 2 /\ path[2] = "/"
                         /\ ~(Len(path) >= 3 /\ path[3] = "/") THEN 2
                 ELSE 1
             joined == JoinSlash(NormComps(SplitSlash(path), initial_slashes, <<>>))
             out == [i \in 1..initial_slashes |-> "/"] \o joined
         IN  IF out = <<>> THEN curdir ELSE out

\* A mutant of the word loop: every word is joined to the directory, ".."
\* included.
KeepAllWords(words) == words

\* The word loop of translate_path: components that are not a simple name
\* are ignored.  (os.path.dirname(word) is empty for every word: the words
\* come from a split at "/".)
RECURSIVE KeepSimpleWords(_)
KeepSimpleWords(words) ==
    IF words = <<>> THEN <<>>
    ELSE IF words[1] = curdir \/ words[1] = pardir THEN KeepSimpleWords(Tail(words))
    ELSE <<words[1]>> \o KeepSimpleWords(Tail(words))

\* The name translate_path returns: the components joined to directory, and
\* whether a "/" is appended.
translate_path(directory, path) ==
    LET p1 == BeforeFirst(BeforeFirst(path, "?"), "#")
        trailing_slash == p1 # <<>> /\ Last(p1) = "/"
        words == NonEmpty(SplitSlash(normpath(unquote(p1))))
    IN  [comps |-> directory \o KeepSimpleWords(words), slash |-> trailing_slash]

\* The file the kernel finds under a translated name.
Lookup(t) == OsResolve(<<>>, t.comps)

----------------------------------------------------------------------------
(* Requests.  A request line is split at white space into words; the       *)
(* model keeps the number of words and, as far as they exist, the command, *)
(* the path and the version.  ims: the request carries an                  *)
(* If-Modified-Since date (and no If-None-Match) that is not before the    *)
(* file's modification time.  long: the line is longer than 65536 bytes.   *)

Req(n, c, p, v, i) ==
    [nwords |-> n, command |-> c, path |-> p, version |-> v, ims |-> i, long |-> FALSE]

Get(p) == Req(3, "GET", p, "HTTP/1.1", FALSE)

PathTest == <<"/", "test.txt">>

Requests ==
    { Get(PathTest),
      Req(2, "GET", PathTest, "", FALSE),
      Req(3, "GET", PathTest, "FOO/1.1", FALSE),
      Req(3, "GET", PathTest, "HTTP/2.0", FALSE),
      Req(1, "GET", <<>>, "", FALSE),
      Req(2, "HEAD", PathTest, "", FALSE),
      Req(3, "HEAD", PathTest, "HTTP/1.0", FALSE),
      Req(3, "POST", PathTest, "HTTP/1.1", FALSE),
      Req(3, "GET", PathTest, "HTTP/1.1", TRUE),
      Req(0, "", <<>>, "", FALSE),
      [Get(PathTest) EXCEPT !.long = TRUE],
      Get(<<"/", "test.txt", "/">>),
      Get(<<"/", "nope">>),
      Get(<<"/", "noperm.txt">>),
      Get(<<"/", "bad.bin">>),
      Get(<<"/", "sub">>),
      Get(<<"/", "sub", "/">>),
      Get(<<"/", "app", "/", "?", "q">>),
      Get(<<"/", ".", ".", "/", "etc", "/", "passwd">>),
      Get(<<".", ".", "/", "etc", "/", "passwd">>),
      Get(<<"/", "%2e", "%2e", "%2f", "etc", "%2f", "passwd">>),
      Get(<<"/", "sub", "/", ".", ".", "/", ".", ".", "/", "etc", "/", "passwd">>),
      Req(2, "GET", <<".", ".", "/", "etc", "/", "passwd">>, "", FALSE) }

\* The (major, minor) pair parse_request reads from the version word, or <<>>
\* where it raises ValueError.
VersionNumber(v) ==
    CASE v = "HTTP/1.0" -> <<1, 0>>
      [] v = "HTTP/1.1" -> <<1, 1>>
      [] v = "HTTP/2.0" -> <<2, 0>>
      [] OTHER -> <<>>

----------------------------------------------------------------------------
(* The response a handler writes.  Header lines are collected in           *)
(* _headers_buffer (bufStatus, bufHeaders) and reach the socket when        *)
(* flush_headers runs; status and headers are what is on the socket.       *)
(* code is the status the handler logged.  A body chunk is                 *)
(* <<kind, file name, index>>.                                             *)

COEP == <<"Cross-Origin-Embedder-Policy", "require-corp">>

COOP == <<"Cross-Origin-Opener-Policy", "same-origin">>

NewHandler(version, command) ==
    [request_version |-> version, command |-> command, code |-> 0,
     bufStatus |-> 0, bufHeaders |-> {}, status |-> 0, headers |-> {},
     flushed |-> FALSE, body |-> <<>>]

\* BaseHTTPRequestHandler.send_header
send_header(h, keyword, value) ==
    IF h.request_version # "HTTP/0.9"
    THEN [h EXCEPT !.bufHeaders = @ \cup {<<keyword, value>>}]
    ELSE h

\* BaseHTTPRequestHandler.send_response (with send_response_only)
send_response(h, code) ==
    LET h1 == [h EXCEPT !.code = code,
                        !.bufStatus = IF h.request_version # "HTTP/0.9" THEN code ELSE @]
    IN  send_header(send_header(h1, "Server", "SimpleHTTP"), "Date", "now")

\* BaseHTTPRequestHandler.end_headers (with flush_headers)
base_end_headers(h) ==
    IF h.request_version # "HTTP/0.9"
    THEN [h EXCEPT !.status = h.bufStatus, !.headers = @ \cup h.bufHeaders,
                   !.bufStatus = 0, !.bufHeaders = {}, !.flushed = TRUE]
    ELSE h

\* MyHTTPRequestHandler.end_headers
end_headers(h) ==
    base_end_headers(send_header(send_header(h, COEP[1], COEP[2]), COOP[1], COOP[2]))

ErrorPage(code) == <<"error", <<>>, code>>

\* BaseHTTPRequestHandler.send_error
send_error(h, code) ==
    LET h1 == send_header(send_response(h, code), "Connection", "close")
        withBody == code >= 200 /\ code \notin {204, 205, 304}
        h2 == IF withBody
              THEN send_header(send_header(h1, "Content-Type", "text/html"),
                               "Content-Length", "n")
              ELSE h1
        h3 == end_headers(h2)
    IN  IF h.command # "HEAD" /\ withBody
        THEN [h3 EXCEPT !.body = Append(@, ErrorPage(code))]
        ELSE h3

\* What handling one request line comes to: the handler after the headers
\* (and any error or listing body) are written, and the file left to copy.
Outcome(h, copy, file) == [h |-> h, copy |-> copy, file |-> file]

Listing(p) == <<"listing", p, 0>>

\* SimpleHTTPRequestHandler.list_directory (the listing of a directory the
\* process may read).
list_directory(h, p) ==
    LET h1 == send_header(send_header(send_response(h, 200),
                                      "Content-type", "text/html"), "Content-Length", "n")
    IN  [end_headers(h1) EXCEPT !.body =
             IF h.command = "HEAD" THEN @ ELSE Append(@, Listing(p))]

\* A mutant: a file that exists and cannot be opened is reported as 500.
OpenFailureDistinct(h, missing) == send_error(h, IF missing THEN 404 ELSE 500)

\* send_head's "except OSError" around open(): whether the file is missing
\* or cannot be opened, the answer is 404.
OpenFailure(h, missing) == send_error(h, 404)

\* SimpleHTTPRequestHandler.send_head, with do_GET and do_HEAD around it.
send_head(h, fsys, directory, r) ==
    LET t == translate_path(directory, r.path)
        p == Lookup(t)
        raw == BeforeFirst(BeforeFirst(r.path, "?"), "#")
        index == Append(p, N("index.html"))
        isdir == IsDir(fsys, p)
        file == IF isdir THEN index ELSE p
        slash == IF isdir THEN FALSE ELSE t.slash
    IN  IF isdir /\ ~(raw # <<>> /\ Last(raw) = "/")
        THEN Outcome(end_headers(send_header(send_header(send_response(h, 301),
                         "Location", "slash"), "Content-Length", "0")), FALSE, <<>>)
        ELSE IF isdir /\ ~IsFile(fsys, index)
        THEN Outcome(list_directory(h, p), FALSE, <<>>)
        ELSE IF slash
        THEN Outcome(send_error(h, 404), FALSE, <<>>)
        ELSE IF ~Exists(fsys, file) \/ Node(fsys, file).openErr
        THEN Outcome(OpenFailure(h, ~Exists(fsys, file)), FALSE, <<>>)
        ELSE IF r.ims
        THEN Outcome(end_headers(send_response(h, 304)), FALSE, <<>>)
        ELSE Outcome(end_headers(send_header(send_header(send_header(send_response(h, 200),
                         "Content-type", "guess"), "Content-Length", "size"),
                         "Last-Modified", "mtime")),
                     h.command = "GET", file)

\* BaseHTTPRequestHandler.parse_request and the dispatch of
\* handle_one_request, for a request line that was read.
handle_one_request(fsys, directory, r) ==
    LET h09 == NewHandler("HTTP/0.9", "")
        vn == VersionNumber(r.version)
        hv == NewHandler(IF r.nwords >= 3 THEN r.version ELSE "HTTP/0.9", r.command)
    IN  IF r.long THEN Outcome(send_error(NewHandler("", ""), 414), FALSE, <<>>)
        ELSE IF r.nwords = 0 THEN Outcome(h09, FALSE, <<>>)
        ELSE IF r.nwords >= 3 /\ vn = <<>> THEN Outcome(send_error(h09, 400), FALSE, <<>>)
        ELSE IF r.nwords >= 3 /\ vn[1] >= 2 THEN Outcome(send_error(h09, 505), FALSE, <<>>)
        ELSE IF ~(2 <= r.nwords /\ r.nwords <= 3)
        THEN Outcome(send_error([hv EXCEPT !.command = ""], 400), FALSE, <<>>)
        ELSE IF r.nwords = 2 /\ r.command # "GET"
        THEN Outcome(send_error([hv EXCEPT !.command = ""], 400), FALSE, <<>>)
        ELSE IF r.command \notin {"GET", "HEAD"} THEN Outcome(send_error(hv, 501), FALSE, <<>>)
        ELSE send_head(hv, fsys, directory, r)

----------------------------------------------------------------------------
(* The command line.                                                       *)

Digits == {"0", "1", "2", "3", "4", "5", "6", "7", "8", "9"}

DigitValue(d) == CHOOSE v \in 0..9 : ToString(v) = d

\* int(s) succeeds on a non-empty run of decimal digits.
IsInt(s) == s # <<>> /\ \A i \in 1..Len(s) : s[i] \in Digits

RECURSIVE ParseInt(_)
ParseInt(s) ==
    IF s = <<>> THEN 0 ELSE 10 * ParseInt(Front(s)) + DigitValue(Last(s))

\* sys.argv[1:] of the runs the model starts from.
Argvs ==
    { <<>>,
      << <<"9", "0", "9", "0">>, <<"x">> >>,
      << <<"0">> >>,
      << <<"a", "b", "c">> >>,
      << <<"9", "0", "x">> >>,
      << <<"9", "9", "9", "9", "9">> >> }

PORT == 8000

\* A mutant: the argument is ignored.
PortOfDefault(args) == PORT

\* port = int(sys.argv[1]) if len(sys.argv) > 1 else PORT
PortOf(args) == IF args = <<>> THEN PORT ELSE ParseInt(args[1])

\* A mutant: the handler serves the working directory.
DIRECTORY_cwd == Cwd

DIRECTORY == ScriptDir

\* The ports the kernel may pick for a bind to port 0 (the two ends of the
\* local port range stand for it).
EphemeralPorts == {32768, 60999}

\* Exit status of the interpreter for an exception that leaves __main__:
\* KeyboardInterrupt is caught there (status 0); anything else is not.
UncaughtStatus(exc) == IF exc = "KeyboardInterrupt" THEN 130 ELSE 1

----------------------------------------------------------------------------
(* The state.                                                              *)

VARIABLES
    argv,        \* the arguments after the program name
    pc,          \* where the main thread is
    port,        \* the local port of __main__ (-1: not yet set)
    directory,   \* the directory the handlers serve
    sock,        \* the listening socket: "none", "listening", "closed"
    boundPort,   \* the port the listening socket is bound to (-1: none)
    bindCalls,   \* number of bind() calls made
    stdout,      \* what was printed
    exitStatus,  \* the exit status (-1: running)
    intAt,       \* the pc at which the interrupt arrived ("none": not yet)
    fs,          \* the file system
    backlog,     \* connections the kernel completed, not yet accepted
    phase,       \* per connection: where it is
    sent,        \* per connection: the client has written its request
    cclosed,     \* per connection: the client has closed its end
    unread,      \* per connection: body chunks written, not yet read by the client
    req,         \* per connection: the request line its handler read
    resp,        \* per connection: the response its handler wrote
    fpos,        \* per connection: the file being copied and the next chunk
    cur,         \* the connection process_request is working on (0: none)
    acceptOrder, \* connections in the order accept() returned them
    finishOrder  \* connections in the order their handling ended

vars == <<argv, pc, port, directory, sock, boundPort, bindCalls, stdout, exitStatus,
          intAt, fs, backlog, phase, sent, cclosed, unread, req, resp, fpos, cur,
          acceptOrder, finishOrder>>

procVars == <<argv, port, directory, sock, boundPort, bindCalls, stdout, exitStatus, fs>>

Conns == 1..MaxConns

NoReq == Req(0, "-", <<>>, "", FALSE)

NoFile == [file |-> <<>>, next |-> 0]

\* A connection's handler is running.
Handling(c) == phase[c] \in {"readline", "copy"}

\* The process is inside serve_forever.
Serving == pc \in {"select", "handle"}

Init ==
    /\ argv \in Argvs
    /\ pc = "start"
    /\ port = -1
    /\ directory = DIRECTORY
    /\ sock = "none"
    /\ boundPort = -1
    /\ bindCalls = 0
    /\ stdout = <<>>
    /\ exitStatus = -1
    /\ intAt = "none"
    /\ fs = InitFS
    /\ backlog = <<>>
    /\ phase = [c \in Conns |-> "new"]
    /\ sent = [c \in Conns |-> FALSE]
    /\ cclosed = [c \in Conns |-> FALSE]
    /\ unread = [c \in Conns |-> 0]
    /\ req = [c \in Conns |-> NoReq]
    /\ resp = [c \in Conns |-> NewHandler("", "")]
    /\ fpos = [c \in Conns |-> NoFile]
    /\ cur = 0
    /\ acceptOrder = <<>>
    /\ finishOrder = <<>>

connVars == <<backlog, phase, sent, cclosed, unread, req, resp, fpos, cur,
              acceptOrder, finishOrder>>

----------------------------------------------------------------------------
(* Startup: __main__ and run_server up to serve_forever.                   *)

\* Line 35 when int() succeeds or there is no argument.
ParsePort ==
    /\ pc = "start"
    /\ IF argv = <<>> THEN TRUE ELSE IsInt(argv[1])
    /\ port' = PortOf(argv)
    /\ pc' = "parsed"
    /\ UNCHANGED <<argv, directory, sock, boundPort, bindCalls, stdout, exitStatus,
                   intAt, fs, connVars>>

\* int() raises ValueError outside the try: the interpreter exits.
ParsePortFails ==
    /\ pc = "start"
    /\ IF argv = <<>> THEN FALSE ELSE ~IsInt(argv[1])
    /\ pc' = "exit"
    /\ exitStatus' = UncaughtStatus("ValueError")
    /\ UNCHANGED <<argv, port, directory, sock, boundPort, bindCalls, stdout,
                   intAt, fs, connVars>>

\* TCPServer(("", port), ...): socket(), bind(), listen().
BindOk ==
    /\ pc = "parsed"
    /\ port \in 0..65535
    /\ bindCalls' = bindCalls + 1
    /\ sock' = "listening"
    /\ boundPort' \in (IF port = 0 THEN EphemeralPorts ELSE {port})
    /\ pc' = "banner"
    /\ UNCHANGED <<argv, port, directory, stdout, exitStatus, intAt, fs, connVars>>

\* A mutant: a bare except, every exception ends in "Server stopped.".
MainExceptAll(exc) == [pc |-> "except", status |-> -1]

\* A mutant: no except clause, KeyboardInterrupt leaves the script.
MainExceptNone(exc) == [pc |-> "exit", status |-> UncaughtStatus(exc)]

\* What __main__ does with an exception out of run_server: the next pc and
\* the exit status.
MainExcept(exc) ==
    IF exc = "KeyboardInterrupt"
    THEN [pc |-> "except", status |-> -1]
    ELSE [pc |-> "exit", status |-> UncaughtStatus(exc)]

\* bind() raises (address in use, permission denied, port out of range):
\* TCPServer.__init__ closes the socket and re-raises.
BindFails ==
    /\ pc = "parsed"
    /\ bindCalls' = bindCalls + 1
    /\ sock' = "closed"
    /\ pc' = MainExcept("OSError").pc
    /\ exitStatus' = MainExcept("OSError").status
    /\ UNCHANGED <<argv, port, directory, boundPort, stdout, intAt, fs, connVars>>

\* The four print calls of run_server.
Banner ==
    /\ pc = "banner"
    /\ stdout' = Append(stdout, "Server running")
    /\ pc' = "select"
    /\ UNCHANGED <<argv, port, directory, sock, boundPort, bindCalls, exitStatus,
                   intAt, fs, connVars>>

----------------------------------------------------------------------------
(* Clients.  The kernel completes connections while the socket listens,    *)
(* whatever the server is doing.                                           *)

\* TCPServer.request_queue_size
request_queue_size == 5

Alive == pc # "exit"

Connect(c) ==
    /\ sock = "listening"
    /\ phase[c] = "new"
    /\ Len(backlog) < request_queue_size
    /\ phase' = [phase EXCEPT ![c] = "queued"]
    /\ backlog' = Append(backlog, c)
    /\ UNCHANGED <<pc, intAt, procVars, sent, cclosed, unread, req, resp, fpos, cur,
                   acceptOrder, finishOrder>>

\* The client writes its request.
Send(c) ==
    /\ Alive
    /\ phase[c] \in {"queued", "readline"}
    /\ ~sent[c] /\ ~cclosed[c]
    /\ sent' = [sent EXCEPT ![c] = TRUE]
    /\ UNCHANGED <<pc, intAt, procVars, backlog, phase, cclosed, unread, req, resp, fpos,
                   cur, acceptOrder, finishOrder>>

\* The client reads one chunk of the body.
Recv(c) ==
    /\ Alive
    /\ unread[c] > 0
    /\ ~cclosed[c]
    /\ unread' = [unread EXCEPT ![c] = @ - 1]
    /\ UNCHANGED <<pc, intAt, procVars, backlog, phase, sent, cclosed, req, resp, fpos,
                   cur, acceptOrder, finishOrder>>

\* The client closes its end.
Close(c) ==
    /\ Alive
    /\ phase[c] \in {"queued", "readline", "copy"}
    /\ ~cclosed[c]
    /\ cclosed' = [cclosed EXCEPT ![c] = TRUE]
    /\ UNCHANGED <<pc, intAt, procVars, backlog, phase, sent, unread, req, resp, fpos,
                   cur, acceptOrder, finishOrder>>

----------------------------------------------------------------------------
(* The serve loop: BaseServer.serve_forever, _handle_request_noblock,      *)
(* process_request, and the handler it constructs.                         *)

\* A mutant: ThreadingMixIn.process_request starts a thread and returns.
ProcessRequestPcThreaded == "select"

\* TCPServer.process_request runs finish_request in the calling thread: the
\* loop is in "handle" until the handler is done.
ProcessRequestPc == "handle"

\* The connection is torn down (shutdown_request): nothing is left in
\* flight, and the client, reading end of file, closes its end.
TearDown(c, ph) ==
    /\ phase' = [phase EXCEPT ![c] = ph]
    /\ fpos' = [fpos EXCEPT ![c] = NoFile]
    /\ unread' = [unread EXCEPT ![c] = 0]
    /\ cclosed' = [cclosed EXCEPT ![c] = TRUE]
    /\ finishOrder' = Append(finishOrder, c)
    /\ cur' = 0

\* A mutant: an exception of the handler leaves serve_forever, and the
\* process ends with a traceback.
EscapeHandling(c, ph) ==
    /\ TearDown(c, ph)
    /\ sent' = sent
    /\ pc' = IF ph = "error" THEN "exit" ELSE "select"
    /\ sock' = IF ph = "error" THEN "closed" ELSE sock
    /\ exitStatus' = IF ph = "error" THEN UncaughtStatus("OSError") ELSE exitStatus

\* A mutant: a handler that returned keeps the connection alive and waits
\* for another request on it (close_connection = False).
KeepAliveHandling(c, ph) ==
    IF ph = "done"
    THEN /\ phase' = [phase EXCEPT ![c] = "readline"]
         /\ sent' = [sent EXCEPT ![c] = FALSE]
         /\ fpos' = [fpos EXCEPT ![c] = NoFile]
         /\ UNCHANGED <<unread, cclosed, finishOrder, cur, pc, sock, exitStatus>>
    ELSE /\ TearDown(c, ph)
         /\ pc' = "select"
         /\ UNCHANGED <<sock, exitStatus, sent>>

\* The handling of connection c ends in phase ph, "done" when the handler
\* returned and "error" when it raised an Exception, which
\* _handle_request_noblock reports (handle_error): either way the request
\* is shut down and the loop goes back to the selector.
EndHandling(c, ph) ==
    /\ TearDown(c, ph)
    /\ pc' = "select"
    /\ UNCHANGED <<sock, exitStatus, sent>>

\* selector.select() reports the socket readable; get_request() accepts the
\* oldest completed connection, and a handler is constructed for it.  The
\* handler objects of requests that ended are gone by now: the model keeps
\* what a handler read and wrote until the next accept.
Accept ==
    /\ pc = "select"
    /\ backlog # <<>>
    /\ LET c == Head(backlog)
       IN  /\ phase' = [phase EXCEPT ![c] = "readline"]
           /\ cur' = c
           /\ acceptOrder' = Append(acceptOrder, c)
    /\ backlog' = Tail(backlog)
    /\ req' = [c \in Conns |-> IF Handling(c) THEN req[c] ELSE NoReq]
    /\ resp' = [c \in Conns |-> IF Handling(c) THEN resp[c] ELSE NewHandler("", "")]
    /\ pc' = ProcessRequestPc
    /\ UNCHANGED <<intAt, procVars, sent, cclosed, unread, fpos, finishOrder>>

\* rfile.readline() returns the request line r: handle_one_request parses
\* it, answers, and either is done or has a file to copy.
ReadRequest(c) ==
    /\ Serving
    /\ phase[c] = "readline"
    /\ sent[c]
    /\ \E r \in Requests :
         LET o == handle_one_request(fs, directory, r)
         IN  /\ req' = [req EXCEPT ![c] = r]
             /\ resp' = [resp EXCEPT ![c] = o.h]
             /\ IF o.copy
                THEN /\ phase' = [phase EXCEPT ![c] = "copy"]
                     /\ fpos' = [fpos EXCEPT ![c] = [file |-> o.file, next |-> 1]]
                     /\ UNCHANGED <<pc, cur, finishOrder, unread, cclosed, sock,
                                    exitStatus, sent>>
                ELSE EndHandling(c, "done")
    /\ UNCHANGED <<argv, port, directory, boundPort, bindCalls, stdout, fs, intAt,
                   backlog, acceptOrder>>

\* rfile.readline() returns b"": the client closed without a request.
ReadEOF(c) ==
    /\ Serving
    /\ phase[c] = "readline"
    /\ ~sent[c] /\ cclosed[c]
    /\ EndHandling(c, "done")
    /\ UNCHANGED <<argv, port, directory, boundPort, bindCalls, stdout, fs, intAt,
                   backlog, req, resp, acceptOrder>>

\* One round of shutil.copyfileobj: read a chunk, write it.  The write
\* blocks while the send buffer is full.  What is written to a connection
\* the client has closed is discarded by the kernel, if the write does not
\* raise (CopyFails).
CopyChunk(c) ==
    /\ Serving
    /\ phase[c] = "copy"
    /\ LET f == Node(fs, fpos[c].file)
           i == fpos[c].next
       IN  /\ f.readErrAt # i
           /\ IF cclosed[c] THEN TRUE ELSE unread[c] < SockBuf
           /\ resp' = [resp EXCEPT ![c].body = Append(@, <<"file", f.path, i>>)]
           /\ IF i = f.size
              THEN EndHandling(c, "done")
              ELSE /\ fpos' = [fpos EXCEPT ![c].next = i + 1]
                   /\ unread' = [unread EXCEPT ![c] = IF cclosed[c] THEN @ ELSE @ + 1]
                   /\ UNCHANGED <<phase, pc, cur, finishOrder, cclosed, sock,
                                  exitStatus, sent>>
    /\ UNCHANGED <<argv, port, directory, boundPort, bindCalls, stdout, fs, intAt,
                   backlog, req, acceptOrder>>

\* The read of the next chunk fails, or the write to a connection the
\* client has closed raises BrokenPipeError or ConnectionResetError: the
\* OSError leaves the handler.
CopyFails(c) ==
    /\ Serving
    /\ phase[c] = "copy"
    /\ IF cclosed[c] THEN TRUE ELSE Node(fs, fpos[c].file).readErrAt = fpos[c].next
    /\ EndHandling(c, "error")
    /\ UNCHANGED <<argv, port, directory, boundPort, bindCalls, stdout, fs, intAt,
                   backlog, req, resp, acceptOrder>>

----------------------------------------------------------------------------
(* Interrupt: SIGINT raises KeyboardInterrupt in the main thread.          *)

\* KeyboardInterrupt raised at pc.  Before the try of __main__ it is not
\* caught.  Inside a handler it is no Exception: the bare except of
\* _handle_request_noblock shuts the request down and re-raises.  Inside
\* the with statement of run_server, TCPServer.__exit__ closes the
\* listening socket.  Then __main__ catches it.
Interrupt ==
    /\ pc \in {"start", "parsed", "banner", "select", "handle"}
    /\ intAt = "none"
    /\ intAt' = pc
    /\ pc' = IF pc = "start" THEN "exit" ELSE MainExcept("KeyboardInterrupt").pc
    /\ exitStatus' = IF pc = "start" THEN UncaughtStatus("KeyboardInterrupt")
                     ELSE MainExcept("KeyboardInterrupt").status
    /\ sock' = IF pc \in {"banner", "select", "handle"} THEN "closed" ELSE sock
    /\ IF pc = "handle"
       THEN TearDown(cur, "aborted")
       ELSE UNCHANGED <<phase, fpos, unread, cclosed, finishOrder, cur>>
    /\ UNCHANGED <<argv, port, directory, boundPort, bindCalls, stdout, fs, backlog,
                   sent, req, resp, acceptOrder>>

\* except KeyboardInterrupt: print("\nServer stopped."), and the script ends.
PrintStopped ==
    /\ pc = "except"
    /\ stdout' = Append(stdout, "Server stopped.")
    /\ pc' = "exit"
    /\ exitStatus' = 0
    /\ UNCHANGED <<argv, port, directory, sock, boundPort, bindCalls, intAt, fs, connVars>>

----------------------------------------------------------------------------

ServerStep ==
    \/ ParsePort
    \/ ParsePortFails
    \/ BindOk
    \/ BindFails
    \/ Banner
    \/ Accept
    \/ \E c \in Conns : ReadRequest(c)
    \/ \E c \in Conns : ReadEOF(c)
    \/ \E c \in Conns : CopyChunk(c)
    \/ \E c \in Conns : CopyFails(c)
    \/ PrintStopped

ClientStep ==
    \/ \E c \in Conns : Connect(c)
    \/ \E c \in Conns : Send(c)
    \/ \E c \in Conns : Recv(c)
    \/ \E c \in Conns : Close(c)

Next == ServerStep \/ ClientStep \/ Interrupt

Spec == Init /\ [][Next]_vars

\* The interpreter runs the main thread whenever it can take a step.
FairSpec == Spec /\ WF_vars(ServerStep)

\* Clients that, while their connection is open, send their request and
\* read what is written to them.
CoopSpec ==
    /\ FairSpec
    /\ \A c \in Conns : WF_vars(Send(c)) /\ WF_vars(Recv(c))

----------------------------------------------------------------------------
(* Vocabulary of the properties.                                           *)

\* The handler of c has put bytes on the socket.
Responded(c) == resp[c].flushed \/ resp[c].body # <<>>

\* The bytes of file f, chunk by chunk.
Content(f) == [i \in 1..f.size |-> <<"file", f.path, i>>]

\* The file a request path names for a reader who follows every "..".
Naive(r) ==
    OsResolve(ScriptDir, NonEmpty(SplitSlash(unquote(BeforeFirst(r.path, "?")))))

\* The request path leads out of the root directory.
Escaping(r) == r.nwords >= 2 /\ ~IsPrefix(ScriptDir, Naive(r))

\* The name the request path resolves to under the root directory.
Target(r) == translate_path(ScriptDir, r.path)

\* The request path names nothing under the root directory.
NamesNothing(r) == r.nwords >= 2 /\ ~Exists(InitFS, Lookup(Target(r)))

\* The request path names a regular file under the root directory.
NamesFile(r) == r.nwords >= 2 /\ IsFile(InitFS, Lookup(Target(r)))

\* ... which opens and reads without error.
NamesReadableFile(r) ==
    /\ NamesFile(r)
    /\ ~Node(InitFS, Lookup(Target(r))).openErr
    /\ Node(InitFS, Lookup(Target(r))).readErrAt = 0

\* The request line reaches do_GET or do_HEAD with an HTTP/1.x version.
WellFormed(r) ==
    r.nwords = 3 /\ ~r.long /\ r.version \in {"HTTP/1.0", "HTTP/1.1"}
    /\ r.command \in {"GET", "HEAD"}

\* A plain GET: HTTP/1.x, not conditional, no trailing slash.
PlainGet(r) ==
    WellFormed(r) /\ r.command = "GET" /\ ~r.ims /\ ~Target(r).slash

\* A startup failure happened: the port argument is no integer, or bind()
\* was called and no port is bound.
ParseFailed == pc # "start" /\ argv # <<>> /\ ~IsInt(argv[1])

BindFailed == bindCalls >= 1 /\ boundPort = -1

----------------------------------------------------------------------------
(* C1.  Every response the server has sent, whatever the request, carries  *)
(* both Cross-Origin-Embedder-Policy: require-corp and                     *)
(* Cross-Origin-Opener-Policy: same-origin.                                *)
C1_HeaderInvariant ==
    \A c \in Conns : Responded(c) => {COEP, COOP} \subseteq resp[c].headers

C3_ErrorContainment ==
    (intAt = "none"
     /\ \E c \in Conns : phase[c] = "error" \/ (phase[c] = "done" /\ resp[c].code >= 400))
        => /\ Serving
           /\ sock = "listening"
           /\ exitStatus = -1
           /\ (pc = "select" /\ backlog # <<>>) => ENABLED Accept

\* The handling of one connection ended in an exception (a failed read, a
\* client that went away), and the next connection got its file.
C3_Witness ==
    \E c, d \in Conns :
        /\ acceptOrder = <<c, d>>
        /\ phase[c] = "error"
        /\ phase[d] = "done" /\ req[d] = Get(PathTest)
        /\ resp[d].status = 200
        /\ resp[d].body = Content(Node(fs, ScriptDir \o <<N("test.txt")>>))

(* C4, as claimed.  A request that names nothing under the root is         *)
(* answered 404, and a request for an existing file that fails with an     *)
(* I/O error when opened or read is answered 500.                          *)
C4_StatusMapping ==
    \A c \in Conns :
        (phase[c] \in {"done", "error"} /\ WellFormed(req[c]) /\ ~req[c].ims
         /\ ~Target(req[c]).slash)
            => /\ NamesNothing(req[c]) => resp[c].status = 404
               /\ (NamesFile(req[c]) /\ ~NamesReadableFile(req[c]))
                      => resp[c].status = 500

(* C4, amended.  A request that names nothing under the root is answered   *)
(* 404; so is a request for an existing file that cannot be opened; a      *)
(* file whose read fails after it was opened has had status 200 sent, its  *)
(* body stops short and the handling ends in an exception; no response     *)
(* has status 500.                                                         *)
C4_StatusMappingAsBuilt ==
    \A c \in Conns :
        /\ resp[c].status # 500 /\ resp[c].code # 500
        /\ (phase[c] \in {"done", "error"} /\ WellFormed(req[c]) /\ ~req[c].ims
            /\ ~Target(req[c]).slash)
               => LET f == Node(InitFS, Lookup(Target(req[c])))
                  IN  /\ NamesNothing(req[c]) => resp[c].status = 404
                      /\ (NamesFile(req[c]) /\ f.openErr) => resp[c].status = 404
                      /\ (NamesFile(req[c]) /\ ~f.openErr /\ f.readErrAt # 0
                          /\ req[c].command = "GET")
                             => /\ phase[c] = "error"
                                /\ resp[c].status = 200
                                /\ Len(resp[c].body) < f.size
                                /\ IsPrefix(resp[c].body, Content(f))

\* A file that exists and cannot be opened has been answered.
C4_Witness ==
    \E c \in Conns :
        /\ phase[c] = "done"
        /\ req[c] = Get(<<"/", "noperm.txt">>)
        /\ resp[c].status = 404

C6_StartupFailuresFatal ==
    (ParseFailed \/ BindFailed)
        => /\ pc = "exit"
           /\ exitStatus \notin {-1, 0}
           /\ bindCalls <= 1
           /\ sock # "listening"
           /\ acceptOrder = <<>>
           /\ \A c \in Conns : phase[c] = "new"

\* bind() failed for the port given on the command line.
C6_Witness ==
    /\ BindFailed
    /\ port = 9090
    /\ pc = "exit"
    /\ exitStatus = 1

(* C7.  An interrupt that arrives while the process is in the serve loop   *)
(* (at the selector or in a handler) leads to the process having printed   *)
(* "Server stopped.", closed the listening socket and exited with status   *)
(* 0; and status 0 is reached only after an interrupt.                     *)
C7_InterruptShutdown ==
    /\ (intAt \in {"select", "handle"})
           ~> (/\ pc = "exit"
               /\ exitStatus = 0
               /\ stdout # <<>> /\ Last(stdout) = "Server stopped."
               /\ sock = "closed")
    /\ [](exitStatus = 0 => intAt # "none")

\* The interrupt arrived in the middle of a handler.
C7_Witness ==
    /\ intAt = "handle"
    /\ pc = "exit"
    /\ exitStatus = 0
    /\ \E c \in Conns : phase[c] = "aborted"

(* C8, as claimed.  The port the listening socket is bound to is 8000      *)
(* when there is no argument and the integer value of the first argument   *)
(* otherwise.                                                              *)
C8_PortSelection ==
    sock = "listening"
        => boundPort = (IF argv = <<>> THEN 8000 ELSE ParseInt(argv[1]))

(* C8, amended.  The port passed to bind() is 8000 when there is no        *)
(* argument and the integer value of the first argument otherwise; the     *)
(* socket is bound to that port unless it is 0, and then to a port the     *)
(* kernel picks; once chosen, port and root directory never change.        *)
C8_PortSelectionAsBuilt ==
    /\ [](pc \in {"parsed", "banner", "select", "handle"}
             => port = (IF argv = <<>> THEN 8000 ELSE ParseInt(argv[1])))
    /\ [](sock = "listening"
             => /\ port # 0 => boundPort = port
                /\ port = 0 => boundPort \in EphemeralPorts)
    /\ [](directory = ScriptDir)
    /\ [][port # -1 => port' = port /\ directory' = directory]_vars
    /\ [][sock = "listening" => boundPort' = boundPort]_vars

\* The server listens on the port of the first argument.
C8_Witness ==
    /\ argv # <<>>
    /\ sock = "listening"
    /\ boundPort = 9090
    /\ acceptOrder # <<>>

(* C9, as claimed.  Under fair scheduling of the server, the handling of   *)
(* every accepted connection ends and the loop returns to the selector,    *)
(* whatever the client does.                                               *)
C9_NoIndefiniteBlocking == (pc = "handle") ~> (pc # "handle")

(* C9, amended.  Under fair scheduling of the server, the handling of an   *)
(* accepted connection ends provided the client, while its connection is   *)
(* open, eventually sends its request and reads what is written to it.     *)
C9_EndsWithCooperativeClient ==
    (\A c \in Conns : WF_vars(Send(c)) /\ WF_vars(Recv(c)))
        => ((pc = "handle") ~> (pc # "handle"))

\* A handler waits for a request the client has not sent.
C9_Witness ==
    \E c \in Conns :
        /\ pc = "handle" /\ cur = c
        /\ phase[c] = "readline"
        /\ ~sent[c] /\ ~cclosed[c]

(* C10.  At most one connection is being handled; every connection         *)
(* accepted before the latest one has finished; connections are accepted   *)
(* in the order they arrived and finish in the order they were accepted.   *)
C10_SequentialHandling ==
    /\ Cardinality({c \in Conns : Handling(c)}) <= 1
    /\ \A i \in 1..(Len(acceptOrder) - 1) : ~Handling(acceptOrder[i])
    /\ IsPrefix(finishOrder, acceptOrder)
    /\ \A c \in Conns : Handling(c) => pc = "handle" /\ cur = c
    /\ \A i \in 1..Len(backlog) : phase[backlog[i]] = "queued"

\* One connection is being handled while another, whose request is already
\* written, waits in the backlog.
C10_Witness ==
    \E c, d \in Conns :
        /\ Handling(c)
        /\ phase[d] = "queued" /\ sent[d]
        /\ backlog = <<d>>

====
